---- MODULE Spec2Model ----
(***************************************************************************)
(* Model of scripts/cnocr_train.py: the command line training entry point  *)
(* of cnocr.  One run of the script is a sequential process:               *)
(*   parse_args -> train_cnocr (derive names, output directory, prefix,    *)
(*   hyper-parameters, network, metrics, iterators) -> fit.                *)
(*                                                                         *)
(* Strings are sequences of atoms.  The path separator "/" is always an    *)
(* atom of its own, the text of a number is a sequence of one-character    *)
(* atoms; every other atom is an opaque piece of text without separator.   *)
(***************************************************************************)
EXTENDS Integers, Sequences, FiniteSets, TLC

\* ------------------------------------------------------------------ bounds
\* largest number of flags given on one command line
MaxFlags == 3
\* largest length of the chain returned by mx.image.CreateAugmenter
MaxAugs == 2
\* largest sequence length a generated network reports
MaxSeqLen == 2

\* ------------------------------------------------------------ option values
None == [some |-> FALSE]
Some(v) == [some |-> TRUE, val |-> v]

\* ------------------------------------------------------------------ strings
Sep == "/"

StartsWithSep(s) == s # <<>> /\ Head(s) = Sep

EndsWithSep(s) == s # <<>> /\ s[Len(s)] = Sep

\* path_join with a separator always put between the two parts
path_join_sep(a, b) == a \o <<Sep>> \o b

\* os.path.join(a, b) for two arguments (posixpath)
path_join(a, b) ==
    IF StartsWithSep(b) THEN b
    ELSE IF a = <<>> \/ EndsWithSep(a) THEN a \o b
    ELSE a \o <<Sep>> \o b

\* the components of a path: the maximal runs of atoms between separators
RECURSIVE Split(_)
Split(p) ==
    IF p = <<>> THEN <<>>
    ELSE LET cut  == IF \E i \in 1..Len(p) : p[i] = Sep
                     THEN CHOOSE i \in 1..Len(p) :
                              p[i] = Sep /\ \A j \in 1..(i - 1) : p[j] # Sep
                     ELSE Len(p) + 1
             head == SubSeq(p, 1, cut - 1)
             rest == SubSeq(p, cut + 1, Len(p))
         IN  (IF head = <<>> THEN <<>> ELSE <<head>>) \o Split(rest)

\* the file system node a path names
Node(p) == [abs |-> StartsWithSep(p), comps |-> Split(p)]

\* the proper ancestors of a node (the root is not recorded)
Ancestors(n) ==
    {[abs |-> n.abs, comps |-> SubSeq(n.comps, 1, i)] : i \in 1..(Len(n.comps) - 1)}

\* ------------------------------------------------------------- file system
\* A file system is a function from the nodes that exist to their kind.
EmptyFs == [n \in {} |-> "dir"]

\* os.path.exists(p): the node exists (whatever its kind) and can be reached
exists(f, p) ==
    /\ Node(p) \in DOMAIN f
    /\ \A a \in Ancestors(Node(p)) : a \in DOMAIN f /\ f[a] = "dir"

\* os.path.isdir(p)
isdir(f, p) == exists(f, p) /\ f[Node(p)] = "dir"

\* os.makedirs(p) can succeed: the leaf is absent, no ancestor is a file
makedirs_ok(f, p) ==
    /\ Split(p) # <<>>
    /\ Node(p) \notin DOMAIN f
    /\ \A a \in Ancestors(Node(p)) : a \in DOMAIN f => f[a] = "dir"

\* the file system after the first k nodes on the way to p were created
makedirs_upto(f, p, k) ==
    LET n   == Node(p)
        new == {[abs |-> n.abs, comps |-> SubSeq(n.comps, 1, i)] : i \in 1..k}
    IN  [m \in (DOMAIN f) \cup new |-> IF m \in DOMAIN f THEN f[m] ELSE "dir"]

\* the file system after a successful os.makedirs(p)
makedirs(f, p) == makedirs_upto(f, p, Len(Split(p)))

\* ------------------------------------------------------- package constants
\* memegle_cnocr.consts
EMB_MODEL_TYPES == {<<"conv-lite">>, <<"densenet-lite">>}

SEQ_MODEL_TYPES == {<<"fc">>, <<"lstm">>}

MODEL_VERSION == <<"1.2.0">>

\* memegle_cnocr.utils.data_dir()
data_dir == <<Sep, "home", Sep, ".cnocr">>

\* ---------------------------------------------------------- number parsing
DigitVal == [d \in {"0", "1", "2", "3", "4", "5", "6", "7", "8", "9"} |->
                CASE d = "0" -> 0 [] d = "1" -> 1 [] d = "2" -> 2 [] d = "3" -> 3
                  [] d = "4" -> 4 [] d = "5" -> 5 [] d = "6" -> 6 [] d = "7" -> 7
                  [] d = "8" -> 8 [] d = "9" -> 9]

IsDigits(s) == s # <<>> /\ \A i \in 1..Len(s) : s[i] \in DOMAIN DigitVal

RECURSIVE DigitsValue(_)
DigitsValue(s) ==
    IF s = <<>> THEN 0
    ELSE 10 * DigitsValue(SubSeq(s, 1, Len(s) - 1)) + DigitVal[s[Len(s)]]

HasSign(s) == s # <<>> /\ Head(s) \in {"+", "-"}

Unsigned(s) == IF HasSign(s) THEN Tail(s) ELSE s

\* int(s) succeeds: an optional sign and at least one decimal digit
int_ok(s) == IsDigits(Unsigned(s))

\* int(s)
int(s) == IF HasSign(s) /\ Head(s) = "-" THEN 0 - DigitsValue(Unsigned(s))
          ELSE DigitsValue(Unsigned(s))

DotAt(s) == IF \E i \in 1..Len(s) : s[i] = "."
            THEN CHOOSE i \in 1..Len(s) : s[i] = "." /\ \A j \in 1..(i - 1) : s[j] # "."
            ELSE Len(s) + 1

IntPart(s) == SubSeq(s, 1, DotAt(s) - 1)

FracPart(s) == SubSeq(s, DotAt(s) + 1, Len(s))

\* float(s) succeeds: decimal literals "d", "d.", ".d", "d.d" with optional sign
float_ok(s) ==
    LET u == Unsigned(s)
    IN  /\ IntPart(u) \o FracPart(u) # <<>>
        /\ \A i \in 1..Len(IntPart(u)) : IntPart(u)[i] \in DOMAIN DigitVal
        /\ \A i \in 1..Len(FracPart(u)) : FracPart(u)[i] \in DOMAIN DigitVal

\* a decimal number mant / 10^exp in lowest form
RECURSIVE Decimal(_, _)
Decimal(mant, exp) ==
    IF mant = 0 THEN [mant |-> 0, exp |-> 0]
    ELSE IF exp > 0 /\ mant % 10 = 0 THEN Decimal(mant \div 10, exp - 1)
    ELSE [mant |-> mant, exp |-> exp]

\* float(s): the value of a decimal literal
float(s) ==
    LET u == Unsigned(s)
        m == DigitsValue(IntPart(u) \o FracPart(u))
    IN  Decimal(IF HasSign(s) /\ Head(s) = "-" THEN 0 - m ELSE m, Len(FracPart(u)))

\* ------------------------------------------------------------ command line
\* The command lines of the model: for every flag, absent (None) or the text
\* given for it; use_train_image_aug is a switch without text.
ArgvSpace ==
    [emb_model_type : {None, Some(<<"densenet-lite">>), Some(<<"resnet">>)},
     seq_model_type : {None, Some(<<"lstm">>), Some(<<"rnn">>)},
     train_file : {None, Some(<<"d", Sep, "a">>)},
     test_file : {None, Some(<<"d", Sep, "a">>)},
     use_train_image_aug : BOOLEAN,
     gpu : {None, Some(<<"1">>)},
     optimizer : {None, Some(<<"SGD">>)},
     batch_size : {None, Some(<<"6", "4">>), Some(<<"6", "x">>)},
     epoch : {None, Some(<<"5">>)},
     load_epoch : {None, Some(<<"3">>)},
     lr : {None, Some(<<"0", ".", "0", "1">>), Some(<<"1", "e">>)},
     dropout : {None, Some(<<".", "3">>)},
     wd : {None, Some(<<"0", ".", "5", "0">>)},
     clip_gradient : {None, Some(<<"5">>)},
     out_model_dir : {None, Some(<<>>), Some(<<"m">>), Some(<<"m", Sep>>)}]

TextFlags == {"emb_model_type", "seq_model_type", "train_file", "test_file", "gpu",
              "optimizer", "batch_size", "epoch", "load_epoch", "lr", "dropout",
              "wd", "clip_gradient", "out_model_dir"}

\* the number of flags on a command line
NumFlags(a) == Cardinality({f \in TextFlags : a[f].some})
                 + (IF a.use_train_image_aug THEN 1 ELSE 0)

\* the file systems a run may start in
InitialFileSystems ==
    LET default == path_join(path_join(data_dir, MODEL_VERSION), <<"conv-lite", "-", "fc">>)
        asFile(f, p) == [n \in (DOMAIN f) \cup {Node(p)} |->
                            IF n = Node(p) THEN "file" ELSE f[n]]
    IN  { EmptyFs,
          makedirs(EmptyFs, default),
          asFile(makedirs(EmptyFs, path_join(data_dir, MODEL_VERSION)), default),
          makedirs(EmptyFs, <<"m">>),
          asFile(EmptyFs, <<"m">>),
          makedirs(EmptyFs, <<"m", Sep, "conv-lite", "-", "fc">>),
          asFile(makedirs(EmptyFs, <<"m">>), <<"m", Sep, "conv-lite", "-", "fc">>),
          makedirs(EmptyFs, <<"conv-lite", "-", "fc">>) }

\* -------------------------------------------------------------- parse_args
\* choice_ok without the test of the choices
choice_ok_any(raw, choices) == TRUE

\* a flag is absent or its text is one of the choices
choice_ok(raw, choices) == raw.some => raw.val \in choices

\* a flag is absent or its text converts with type=int
int_flag_ok(raw) == raw.some => int_ok(raw.val)

\* a flag is absent or its text converts with type=float
float_flag_ok(raw) == raw.some => float_ok(raw.val)

\* parser.parse_args() accepts the command line
parse_ok(a) ==
    /\ choice_ok(a.emb_model_type, EMB_MODEL_TYPES)
    /\ choice_ok(a.seq_model_type, SEQ_MODEL_TYPES)
    /\ int_flag_ok(a.gpu)
    /\ int_flag_ok(a.batch_size)
    /\ int_flag_ok(a.epoch)
    /\ int_flag_ok(a.load_epoch)
    /\ float_flag_ok(a.lr)
    /\ float_flag_ok(a.dropout)
    /\ float_flag_ok(a.wd)
    /\ float_flag_ok(a.clip_gradient)

\* the value of a flag: its default when absent
str_flag(raw, default) == IF raw.some THEN raw.val ELSE default

int_flag(raw, default) == IF raw.some THEN int(raw.val) ELSE default

float_flag(raw, default) == IF raw.some THEN float(raw.val) ELSE default

\* the namespace parser.parse_args() returns for an accepted command line
Namespace(a) ==
    [emb_model_type |-> str_flag(a.emb_model_type, <<"conv-lite">>),
     seq_model_type |-> str_flag(a.seq_model_type, <<"fc">>),
     train_file |-> str_flag(a.train_file,
                        <<"data", Sep, "sample-data-lst", Sep, "train.txt">>),
     test_file |-> str_flag(a.test_file,
                        <<"data", Sep, "sample-data-lst", Sep, "test.txt">>),
     use_train_image_aug |-> a.use_train_image_aug,
     gpu |-> int_flag(a.gpu, 0),
     optimizer |-> str_flag(a.optimizer, <<"Adam">>),
     batch_size |-> int_flag(a.batch_size, 128),
     epoch |-> int_flag(a.epoch, 20),
     load_epoch |-> IF a.load_epoch.some THEN Some(int(a.load_epoch.val)) ELSE None,
     lr |-> float_flag(a.lr, Decimal(1, 3)),
     dropout |-> float_flag(a.dropout, Decimal(5, 1)),
     wd |-> float_flag(a.wd, Decimal(0, 1)),
     clip_gradient |-> IF a.clip_gradient.some THEN Some(float(a.clip_gradient.val))
                       ELSE None,
     out_model_dir |-> str_flag(a.out_model_dir, path_join(data_dir, MODEL_VERSION)),
     model_name |-> None,
     prefix |-> None]

\* ---------------------------------------------------------- hyperparameters
\* CnHyperparams(): the record with its defaults
CnHyperparams ==
    [seq_model_type |-> <<"lstm">>,
     _num_epoch |-> 10,
     optimizer |-> <<"Adam">>,
     _batch_size |-> 128,
     _learning_rate |-> Decimal(1, 3),
     _drop_out |-> Decimal(5, 1),
     wd |-> Decimal(0, 0),
     clip_gradient |-> None,
     img_height |-> 32,
     img_width |-> 280,
     num_label |-> 20,
     seq_length |-> 0]

\* the read-only property hp.batch_size
batch_size(h) == h._batch_size

\* _update_hp without the assignment of line 161
_update_hp_no_batch(h, a) ==
    [h EXCEPT !.seq_model_type = a.seq_model_type,
              !._num_epoch = a.epoch,
              !.optimizer = a.optimizer,
              !._learning_rate = a.lr,
              !._drop_out = a.dropout,
              !.wd = a.wd,
              !.clip_gradient = a.clip_gradient]

\* _update_hp(hp, args)
_update_hp(h, a) ==
    [h EXCEPT !.seq_model_type = a.seq_model_type,
              !._num_epoch = a.epoch,
              !.optimizer = a.optimizer,
              !._batch_size = a.batch_size,
              !._learning_rate = a.lr,
              !._drop_out = a.dropout,
              !.wd = a.wd,
              !.clip_gradient = a.clip_gradient]

\* ------------------------------------------------------------------- state
VARIABLES
    pc,          \* the statement the run is at
    argv,        \* the command line of the run
    fs,          \* the file system
    fs0,         \* the file system the run started in
    args,        \* the namespace returned by parse_args (None before)
    out_dir,     \* train_cnocr's local out_dir (None before line 128)
    hp,          \* train_cnocr's local hp (None before line 136)
    network,     \* train_cnocr's local network (None before line 139)
    metrics,     \* train_cnocr's local metrics (None before line 140)
    augs,        \* _gen_iters' local augs: None or Some(chain)
    data_train,  \* the training iterator (None before it is constructed)
    data_val,    \* the validation iterator (None before it is constructed)
    fit_args,    \* the keyword arguments fit was called with (None before)
    calls,       \* the functions called so far, in the order of the calls
    exc          \* the exception that ended the run, "none" while there is none

vars == <<pc, argv, fs, fs0, args, out_dir, hp, network, metrics, augs,
          data_train, data_val, fit_args, calls, exc>>

Init ==
    /\ pc = "parse_args"
    /\ argv \in {a \in ArgvSpace : NumFlags(a) <= MaxFlags}
    /\ fs \in InitialFileSystems
    /\ fs0 = fs
    /\ args = None
    /\ out_dir = None
    /\ hp = None
    /\ network = None
    /\ metrics = None
    /\ augs = None
    /\ data_train = None
    /\ data_val = None
    /\ fit_args = None
    /\ calls = <<>>
    /\ exc = "none"

\* ------------------------------------------------------------------ __main__
\* line 213, parse_args returns: every flag given is acceptable
parse_args ==
    /\ pc = "parse_args"
    /\ parse_ok(argv)
    /\ args' = Namespace(argv)
    /\ calls' = Append(calls, "parse_args")
    /\ pc' = "train_cnocr"
    /\ UNCHANGED <<argv, fs, fs0, out_dir, hp, network, metrics, augs,
                   data_train, data_val, fit_args, exc>>

\* line 213, parser.parse_args() rejects the command line and exits
parse_args_error ==
    /\ pc = "parse_args"
    /\ ~parse_ok(argv)
    /\ calls' = Append(calls, "parse_args")
    /\ exc' = "SystemExit"
    /\ pc' = "exit"
    /\ UNCHANGED <<argv, fs, fs0, args, out_dir, hp, network, metrics, augs,
                   data_train, data_val, fit_args>>

\* -------------------------------------------------------------- train_cnocr
\* line 127: the model name
model_name(a) == a.emb_model_type \o <<"-">> \o a.seq_model_type

\* checkpoint_name without the version
checkpoint_name_no_version(name) == <<"cnocr-">> \o name

\* line 133: the file name part of the checkpoint prefix
checkpoint_name(name) == <<"cnocr-v">> \o MODEL_VERSION \o <<"-">> \o name

\* lines 124-129: train_cnocr is entered; the model name and the output directory
train_cnocr_names ==
    /\ pc = "train_cnocr"
    /\ args' = [args EXCEPT !.model_name = Some(model_name(args))]
    /\ out_dir' = Some(path_join(args.out_model_dir, model_name(args)))
    /\ calls' = Append(calls, "train_cnocr")
    /\ pc' = "exists"
    /\ UNCHANGED <<argv, fs, fs0, hp, network, metrics, augs,
                   data_train, data_val, fit_args, exc>>

\* line 130: the test of os.path.exists(out_dir)
train_cnocr_exists ==
    /\ pc = "exists"
    /\ pc' = IF exists(fs, out_dir.val) THEN "prefix" ELSE "makedirs"
    /\ calls' = Append(calls, "exists")
    /\ UNCHANGED <<argv, fs, fs0, args, out_dir, hp, network, metrics, augs,
                   data_train, data_val, fit_args, exc>>

\* line 131: os.makedirs(out_dir) creates the directory and its parents
train_cnocr_makedirs ==
    /\ pc = "makedirs"
    /\ makedirs_ok(fs, out_dir.val)
    /\ fs' = makedirs(fs, out_dir.val)
    /\ calls' = Append(calls, "makedirs")
    /\ pc' = "prefix"
    /\ UNCHANGED <<argv, fs0, args, out_dir, hp, network, metrics, augs,
                   data_train, data_val, fit_args, exc>>

\* train_cnocr_makedirs_error with the exception swallowed
train_cnocr_makedirs_swallowed ==
    /\ pc = "makedirs"
    /\ \E k \in 0..(Len(Split(out_dir.val)) - 1) :
          /\ \A a \in Ancestors(Node(out_dir.val)) :
                Len(a.comps) <= k => (a \in DOMAIN fs => fs[a] = "dir")
          /\ fs' = makedirs_upto(fs, out_dir.val, k)
    /\ calls' = Append(calls, "makedirs")
    /\ pc' = "prefix"
    /\ UNCHANGED <<argv, fs0, args, out_dir, hp, network, metrics, augs,
                   data_train, data_val, fit_args, exc>>

\* line 131: os.makedirs(out_dir) raises (an ancestor is a file, or the
\* system refuses); the parents created before the failure stay
train_cnocr_makedirs_error ==
    /\ pc = "makedirs"
    /\ \E k \in 0..(Len(Split(out_dir.val)) - 1) :
          /\ \A a \in Ancestors(Node(out_dir.val)) :
                Len(a.comps) <= k => (a \in DOMAIN fs => fs[a] = "dir")
          /\ fs' = makedirs_upto(fs, out_dir.val, k)
    /\ calls' = Append(calls, "makedirs")
    /\ exc' = "OSError"
    /\ pc' = "exit"
    /\ UNCHANGED <<argv, fs0, args, out_dir, hp, network, metrics, augs,
                   data_train, data_val, fit_args>>

\* lines 132-134: the checkpoint prefix
train_cnocr_prefix ==
    /\ pc = "prefix"
    /\ args' = [args EXCEPT !.prefix =
                   Some(path_join(out_dir.val, checkpoint_name(args.model_name.val)))]
    /\ pc' = "CnHyperparams"
    /\ UNCHANGED <<argv, fs, fs0, out_dir, hp, network, metrics, augs,
                   data_train, data_val, fit_args, calls, exc>>

\* line 136: hp = CnHyperparams()
train_cnocr_hp ==
    /\ pc = "CnHyperparams"
    /\ hp' = CnHyperparams
    /\ calls' = Append(calls, "CnHyperparams")
    /\ pc' = "_update_hp"
    /\ UNCHANGED <<argv, fs, fs0, args, out_dir, network, metrics, augs,
                   data_train, data_val, fit_args, exc>>

\* line 137: hp = _update_hp(hp, args)
train_cnocr_update_hp ==
    /\ pc = "_update_hp"
    /\ hp' = _update_hp(hp, args)
    /\ calls' = Append(calls, "_update_hp")
    /\ pc' = "gen_network"
    /\ UNCHANGED <<argv, fs, fs0, args, out_dir, network, metrics, augs,
                   data_train, data_val, fit_args, exc>>

\* Line 139 rebinds hp to the second result of gen_network(model_name, hp),
\* and line 140 reads the sequence length from it.  The records hp may be
\* bound to: the argument with the sequence length of the generated network
\* (which may be the length the argument already had).
gen_network_hp(h) == {[h EXCEPT !.seq_length = n] : n \in 0..MaxSeqLen}

\* line 139: network, hp = gen_network(args.model_name, hp)
train_cnocr_gen_network ==
    /\ pc = "gen_network"
    /\ network' = [model_name |-> args.model_name.val]
    /\ hp' \in gen_network_hp(hp)
    /\ calls' = Append(calls, "gen_network")
    /\ pc' = "CtcMetrics"
    /\ UNCHANGED <<argv, fs, fs0, args, out_dir, metrics, augs,
                   data_train, data_val, fit_args, exc>>

\* line 140: metrics = CtcMetrics(hp.seq_length)
train_cnocr_metrics ==
    /\ pc = "CtcMetrics"
    /\ metrics' = [seq_length |-> hp.seq_length]
    /\ calls' = Append(calls, "CtcMetrics")
    /\ pc' = "_gen_iters"
    /\ UNCHANGED <<argv, fs, fs0, args, out_dir, hp, network, augs,
                   data_train, data_val, fit_args, exc>>

\* --------------------------------------------------------------- _gen_iters
\* the transforms mx.image.CreateAugmenter may put into a chain
PhotometricAugs == {[name |-> "ColorJitterAug"], [name |-> "HueJitterAug"]}

\* the chains mx.image.CreateAugmenter(...) may return
CreateAugmenter ==
    UNION {[1..n -> PhotometricAugs] : n \in 0..MaxAugs}

\* FgBgFlipAug(p=0.2)
FgBgFlipAug == [name |-> "FgBgFlipAug", p |-> Decimal(2, 1)]

\* train_augs without the append of line 188
train_augs_no_flip(c) == c

\* lines 173-188: the chain of the training iterator built from the chain c
\* that CreateAugmenter returned
train_augs(c) == Append(c, FgBgFlipAug)

\* lines 170-171 and the test of line 172 when the switch is off
_gen_iters_no_augs ==
    /\ pc = "_gen_iters"
    /\ ~args.use_train_image_aug
    /\ augs' = None
    /\ calls' = Append(calls, "_gen_iters")
    /\ pc' = "train_iter"
    /\ UNCHANGED <<argv, fs, fs0, args, out_dir, hp, network, metrics,
                   data_train, data_val, fit_args, exc>>

\* lines 170-188 when the switch is on
_gen_iters_augs ==
    /\ pc = "_gen_iters"
    /\ args.use_train_image_aug
    /\ \E c \in CreateAugmenter : augs' = Some(train_augs(c))
    /\ calls' = calls \o <<"_gen_iters", "CreateAugmenter", "FgBgFlipAug">>
    /\ pc' = "train_iter"
    /\ UNCHANGED <<argv, fs, fs0, args, out_dir, hp, network, metrics,
                   data_train, data_val, fit_args, exc>>

\* train_iter with an empty chain passed in place of None
train_iter_empty_chain(h, train_fp_prefix, a) ==
    [batch_size |-> h._batch_size,
     data_shape |-> <<3, h.img_height, h.img_width>>,
     label_width |-> h.num_label,
     dtype |-> "int32",
     shuffle |-> Some(TRUE),
     path_imgrec |-> train_fp_prefix \o <<".rec">>,
     path_imgidx |-> train_fp_prefix \o <<".idx">>,
     aug_list |-> IF a.some THEN a ELSE Some(<<>>)]

\* lines 189-198: the keyword arguments of the training iterator
train_iter(h, train_fp_prefix, a) ==
    [batch_size |-> batch_size(h),
     data_shape |-> <<3, h.img_height, h.img_width>>,
     label_width |-> h.num_label,
     dtype |-> "int32",
     shuffle |-> Some(TRUE),
     path_imgrec |-> train_fp_prefix \o <<".rec">>,
     path_imgidx |-> train_fp_prefix \o <<".idx">>,
     aug_list |-> a]

\* val_iter with the index path built with the suffix of the record path
val_iter_rec_twice(h, val_fp_prefix) ==
    [batch_size |-> h._batch_size,
     data_shape |-> <<3, h.img_height, h.img_width>>,
     label_width |-> h.num_label,
     dtype |-> "int32",
     shuffle |-> None,
     path_imgrec |-> val_fp_prefix \o <<".rec">>,
     path_imgidx |-> val_fp_prefix \o <<".rec">>,
     aug_list |-> None]

\* lines 200-207: the keyword arguments of the validation iterator; shuffle
\* and aug_list are not passed
val_iter(h, val_fp_prefix) ==
    [batch_size |-> batch_size(h),
     data_shape |-> <<3, h.img_height, h.img_width>>,
     label_width |-> h.num_label,
     dtype |-> "int32",
     shuffle |-> None,
     path_imgrec |-> val_fp_prefix \o <<".rec">>,
     path_imgidx |-> val_fp_prefix \o <<".idx">>,
     aug_list |-> None]

\* _gen_iters_train that also rebinds hp to a fresh default record
_gen_iters_train_fresh_hp ==
    /\ pc = "train_iter"
    /\ data_train' = [batch_size |-> hp._batch_size,
                      data_shape |-> <<3, hp.img_height, hp.img_width>>,
                      label_width |-> hp.num_label,
                      dtype |-> "int32",
                      shuffle |-> Some(TRUE),
                      path_imgrec |-> args.train_file \o <<".rec">>,
                      path_imgidx |-> args.train_file \o <<".idx">>,
                      aug_list |-> augs]
    /\ hp' = CnHyperparams
    /\ calls' = Append(calls, "GrayImageIter")
    /\ pc' = "val_iter"
    /\ UNCHANGED <<argv, fs, fs0, args, out_dir, network, metrics, augs,
                   data_val, fit_args, exc>>

\* lines 189-198: train_iter = GrayImageIter(...)
_gen_iters_train ==
    /\ pc = "train_iter"
    /\ data_train' = train_iter(hp, args.train_file, augs)
    /\ calls' = Append(calls, "GrayImageIter")
    /\ pc' = "val_iter"
    /\ UNCHANGED <<argv, fs, fs0, args, out_dir, hp, network, metrics, augs,
                   data_val, fit_args, exc>>

\* lines 189-198: GrayImageIter(...) raises (the record files cannot be read)
_gen_iters_train_error ==
    /\ pc = "train_iter"
    /\ calls' = Append(calls, "GrayImageIter")
    /\ exc' = "MXNetError"
    /\ pc' = "exit"
    /\ UNCHANGED <<argv, fs, fs0, args, out_dir, hp, network, metrics, augs,
                   data_train, data_val, fit_args>>

\* lines 200-209: val_iter = GrayImageIter(...), and the return
_gen_iters_val ==
    /\ pc = "val_iter"
    /\ data_val' = val_iter(hp, args.test_file)
    /\ calls' = Append(calls, "GrayImageIter")
    /\ pc' = "fit"
    /\ UNCHANGED <<argv, fs, fs0, args, out_dir, hp, network, metrics, augs,
                   data_train, fit_args, exc>>

\* lines 200-207: GrayImageIter(...) raises (the record files cannot be read)
_gen_iters_val_error ==
    /\ pc = "val_iter"
    /\ calls' = Append(calls, "GrayImageIter")
    /\ exc' = "MXNetError"
    /\ pc' = "exit"
    /\ UNCHANGED <<argv, fs, fs0, args, out_dir, hp, network, metrics, augs,
                   data_train, data_val, fit_args>>

\* lines 145-154: the call of fit
train_cnocr_fit ==
    /\ pc = "fit"
    /\ fit_args' = [network |-> network,
                    data_train |-> data_train,
                    data_val |-> data_val,
                    metrics |-> metrics,
                    args |-> args,
                    hp |-> hp,
                    data_names |-> <<"data">>]
    /\ calls' = Append(calls, "fit")
    /\ pc' = "exit"
    /\ UNCHANGED <<argv, fs, fs0, args, out_dir, hp, network, metrics, augs,
                   data_train, data_val, exc>>

Next ==
    \/ parse_args
    \/ parse_args_error
    \/ train_cnocr_names
    \/ train_cnocr_exists
    \/ train_cnocr_makedirs
    \/ train_cnocr_makedirs_error
    \/ train_cnocr_prefix
    \/ train_cnocr_hp
    \/ train_cnocr_update_hp
    \/ train_cnocr_gen_network
    \/ train_cnocr_metrics
    \/ _gen_iters_no_augs
    \/ _gen_iters_augs
    \/ _gen_iters_train
    \/ _gen_iters_train_error
    \/ _gen_iters_val
    \/ _gen_iters_val_error
    \/ train_cnocr_fit

Spec == Init /\ [][Next]_vars

\* ====================================================================
\* Properties
\* ====================================================================
\* the function f was called
Called(f) == \E i \in 1..Len(calls) : calls[i] = f

\* how often the function f was called
Count(f) == Cardinality({i \in 1..Len(calls) : calls[i] = f})

\* the position of the first call of f
FirstCall(f) == CHOOSE i \in 1..Len(calls) : calls[i] = f /\ \A j \in 1..(i - 1) : calls[j] # f

\* the text X-Y of the two model type flags of the run
FlagModelName == args.emb_model_type \o <<"-">> \o args.seq_model_type

\* the directory part the output directory starts with: D itself when D is
\* empty or ends with a separator, D followed by a separator otherwise
DirPart(D) == IF D = <<>> \/ D[Len(D)] = Sep THEN D ELSE D \o <<Sep>>

\* C1 (as stated): once train_cnocr has derived them, the model name is
\* exactly X-Y and the output directory is exactly D, a separator, X-Y.
C1_Original ==
    out_dir.some =>
        /\ args.model_name = Some(FlagModelName)
        /\ out_dir.val = args.out_model_dir \o <<Sep>> \o FlagModelName

\* C1 (amended): the model name is exactly X-Y for the flag values X and Y,
\* and the output directory is D/X-Y when D is not empty and does not end
\* with a separator, and D immediately followed by X-Y otherwise.
C1_NamesDerived ==
    out_dir.some =>
        /\ argv.emb_model_type.some => args.emb_model_type = argv.emb_model_type.val
        /\ argv.seq_model_type.some => args.seq_model_type = argv.seq_model_type.val
        /\ argv.out_model_dir.some => args.out_model_dir = argv.out_model_dir.val
        /\ args.model_name = Some(FlagModelName)
        /\ out_dir.val = DirPart(args.out_model_dir) \o FlagModelName

C1_Witness ==
    /\ out_dir.some
    /\ argv.out_model_dir = Some(<<"m", Sep>>)
    /\ argv.emb_model_type = Some(<<"densenet-lite">>)
    /\ out_dir.val = <<"m", Sep, "densenet-lite", "-", "fc">>

\* the command line has an out-of-set model type or a malformed number
BadArgv ==
    \/ argv.emb_model_type.some /\ argv.emb_model_type.val \notin EMB_MODEL_TYPES
    \/ argv.seq_model_type.some /\ argv.seq_model_type.val \notin SEQ_MODEL_TYPES
    \/ \E f \in {"gpu", "batch_size", "epoch", "load_epoch"} :
            argv[f].some /\ ~int_ok(argv[f].val)
    \/ \E f \in {"lr", "dropout", "wd", "clip_gradient"} :
            argv[f].some /\ ~float_ok(argv[f].val)

\* C2: a command line with an out-of-set model type or a malformed number
\* makes parse_args fail, and a run whose parsing failed has called nothing
\* but parse_args: no directory was created, train_cnocr was not entered.
C2_ParseFailsFirst ==
    /\ (BadArgv /\ pc # "parse_args") => exc = "SystemExit"
    /\ exc = "SystemExit" =>
          /\ pc = "exit"
          /\ calls = <<"parse_args">>
          /\ fs = fs0
          /\ args = None
          /\ out_dir = None

C2_Witness ==
    /\ exc = "SystemExit"
    /\ argv.seq_model_type = Some(<<"rnn">>)
    /\ fs0 = EmptyFs

\* C3: with the switch off no augmenter is created and both iterators get
\* the same augmentation state, none.
C3_NoAugmentation ==
    ~argv.use_train_image_aug =>
        /\ augs = None
        /\ ~Called("CreateAugmenter")
        /\ ~Called("FgBgFlipAug")
        /\ data_train # None => data_train.aug_list = None
        /\ data_val # None =>
              data_val.aug_list = None /\ data_val.aug_list = data_train.aug_list

C3_Witness ==
    /\ ~argv.use_train_image_aug
    /\ fit_args # None
    /\ fit_args.data_train.aug_list = None

\* the number of transforms of an aug_list argument
NumTransforms(a) == IF a.some THEN Len(a.val) ELSE 0

\* C4: the validation iterator never gets a chain; with the switch on the
\* training chain is a photometric chain followed by the flip transform
\* with p = 0.2 as its last element, so it is strictly longer.
C4_TrainChainLonger ==
    /\ data_val # None => data_val.aug_list = None
    /\ (argv.use_train_image_aug /\ data_train # None) =>
          LET c == data_train.aug_list
          IN  /\ c.some
              /\ Len(c.val) >= 1
              /\ c.val[Len(c.val)] = [name |-> "FgBgFlipAug", p |-> [mant |-> 2, exp |-> 1]]
              /\ \A i \in 1..(Len(c.val) - 1) : c.val[i] \in PhotometricAugs
              /\ data_val # None => NumTransforms(c) > NumTransforms(data_val.aug_list)

C4_Witness ==
    /\ argv.use_train_image_aug
    /\ fit_args # None
    /\ Len(fit_args.data_train.aug_list.val) >= 2

\* C5 (as stated): the prefix is <out_model_dir>/<emb>-<seq> joined with
\* cnocr-v<MODEL_VERSION>-<model_name>.
C5_Original ==
    (args # None /\ args.prefix.some) =>
        args.prefix.val = args.out_model_dir \o <<Sep>> \o FlagModelName
                            \o <<Sep, "cnocr-v">> \o MODEL_VERSION \o <<"-">> \o FlagModelName

\* C5 (amended): the prefix is the output directory train_cnocr derived,
\* a separator, and cnocr-v<MODEL_VERSION>-<model_name>; it is a function of
\* the flags and the version alone.
C5_PrefixDetermined ==
    (args # None /\ args.prefix.some) =>
        /\ args.prefix.val = out_dir.val \o <<Sep, "cnocr-v">> \o MODEL_VERSION
                               \o <<"-">> \o FlagModelName
        /\ args.prefix.val = DirPart(args.out_model_dir) \o FlagModelName
                               \o <<Sep, "cnocr-v">> \o MODEL_VERSION \o <<"-">> \o FlagModelName

C5_Witness ==
    /\ args # None
    /\ argv.out_model_dir = Some(<<>>)
    /\ argv.seq_model_type = Some(<<"lstm">>)
    /\ args.prefix = Some(<<"conv-lite", "-", "lstm", Sep,
                            "cnocr-v", "1.2.0", "-", "conv-lite", "-", "lstm">>)

\* the statements of train_cnocr after line 137, and those after line 139
AfterUpdate == {"gen_network", "CtcMetrics", "_gen_iters", "train_iter", "val_iter", "fit"}

AfterGenNetwork == AfterUpdate \ {"gen_network"}

\* C6 (as stated): hp is constructed with defaults, mutated once by
\* _update_hp, and no later step writes or replaces it.
C6_Original ==
    /\ [](pc = "_update_hp" => hp = CnHyperparams)
    /\ [][(pc \in AfterUpdate) => (hp' = hp)]_vars

\* C6 (amended): hp is constructed with defaults, mutated by _update_hp and
\* then replaced once, by the record gen_network returns; no step after
\* gen_network writes or replaces it, so the iterators and fit see one and
\* the same resolved record.
C6_ResolvedBeforeIterators ==
    /\ [](pc = "_update_hp" => hp = CnHyperparams)
    /\ [][(pc \in AfterGenNetwork) => (hp' = hp)]_vars
    /\ [](data_train # None =>
            /\ data_train.batch_size = hp._batch_size
            /\ data_train.data_shape = <<3, hp.img_height, hp.img_width>>
            /\ data_train.label_width = hp.num_label)
    /\ [](fit_args # None =>
            /\ fit_args.hp = hp
            /\ fit_args.metrics.seq_length = hp.seq_length
            /\ fit_args.data_val.batch_size = hp._batch_size)

C6_Witness ==
    /\ fit_args # None
    /\ fit_args.hp # _update_hp(CnHyperparams, args)

\* a path without its last atom
Stem(path) == SubSeq(path, 1, Len(path) - 1)

\* C7: the training iterator reads <train_file>.rec and <train_file>.idx,
\* the validation iterator <test_file>.rec and <test_file>.idx.
C7_FilePairs ==
    /\ data_train # None =>
          /\ data_train.path_imgrec = args.train_file \o <<".rec">>
          /\ data_train.path_imgidx = args.train_file \o <<".idx">>
          /\ Stem(data_train.path_imgrec) = Stem(data_train.path_imgidx)
          /\ argv.train_file.some => Stem(data_train.path_imgrec) = argv.train_file.val
    /\ data_val # None =>
          /\ data_val.path_imgrec = args.test_file \o <<".rec">>
          /\ data_val.path_imgidx = args.test_file \o <<".idx">>
          /\ Stem(data_val.path_imgrec) = Stem(data_val.path_imgidx)
          /\ argv.test_file.some => Stem(data_val.path_imgrec) = argv.test_file.val

C7_Witness ==
    /\ fit_args # None
    /\ argv.test_file.some
    /\ ~argv.train_file.some
    /\ fit_args.data_val.path_imgidx = <<"d", Sep, "a", ".idx">>
    /\ fit_args.data_train.path_imgrec # fit_args.data_val.path_imgrec

\* C8: an absent output directory is created with its parents before the
\* prefix is computed, an existing one is left alone, and once the
\* hyperparameters are constructed the output directory exists.
C8_OutputDirExists ==
    /\ (args # None /\ args.prefix.some /\ ~exists(fs0, out_dir.val)) =>
          /\ Called("makedirs")
          /\ isdir(fs, out_dir.val)
    /\ (out_dir.some /\ exists(fs0, out_dir.val)) =>
          /\ ~Called("makedirs")
          /\ fs = fs0
    /\ hp # None => isdir(fs, out_dir.val)

\* the part of C8 about creation: an absent directory is created before the
\* prefix is computed, an existing path is left alone
C8_CreatedIfAbsent ==
    /\ (args # None /\ args.prefix.some /\ ~exists(fs0, out_dir.val)) =>
          /\ Called("makedirs")
          /\ isdir(fs, out_dir.val)
    /\ (out_dir.some /\ exists(fs0, out_dir.val)) =>
          /\ ~Called("makedirs")
          /\ fs = fs0

\* the calls of a run that reaches fit, without the optional makedirs
CallsOfFullRun(aug) ==
    <<"parse_args", "train_cnocr", "exists", "CnHyperparams", "_update_hp",
      "gen_network", "CtcMetrics", "_gen_iters">>
      \o (IF aug THEN <<"CreateAugmenter", "FgBgFlipAug">> ELSE <<>>)
      \o <<"GrayImageIter", "GrayImageIter", "fit">>

NotMakedirs(c) == c # "makedirs"

\* C9: fit is called at most once, and only at the end of the sequence
\* directory step, _update_hp, gen_network, CtcMetrics, both iterators; a
\* run that ended with an exception tried makedirs at most once and never
\* called fit.
C9_FitLast ==
    /\ Count("fit") <= 1
    /\ Count("makedirs") <= 1
    /\ Called("fit") =>
          /\ exc = "none"
          /\ SelectSeq(calls, NotMakedirs) = CallsOfFullRun(argv.use_train_image_aug)
          /\ Called("makedirs") => calls[4] = "makedirs"
          /\ exists(fs, out_dir.val)
          /\ network # None /\ metrics # None /\ data_train # None /\ data_val # None
          /\ fit_args = [network |-> network, data_train |-> data_train,
                         data_val |-> data_val, metrics |-> metrics, args |-> args,
                         hp |-> hp, data_names |-> <<"data">>]
    /\ exc # "none" =>
          /\ pc = "exit"
          /\ ~Called("fit")
          /\ fit_args = None

C9_Witness ==
    /\ Called("fit")
    /\ Called("makedirs")
    /\ pc = "exit"

====
